---------------------------- MODULE Spec2Model ----------------------------
(***************************************************************************)
(* A model of biom/commands/table_validator.py (class TableValidator):    *)
(* the two validation drivers _validate_json and _validate_hdf5, the rule  *)
(* methods they dispatch to, and the instance attribute _format_version.   *)
(*                                                                         *)
(* Python values are records [ty, n, s]: ty is the Python type name, n the *)
(* numeric value (a float value is the integer-valued float n.0) and s the *)
(* text of a string.  Lists and tuples are sequences, dicts are functions  *)
(* whose domain is the set of keys present.  A method's outcome is either  *)
(* a returned message or a raised exception (Ret / Raise).  A report line  *)
(* is the record [msg, a, b, idx]: the format string and its arguments;    *)
(* the repr() of a matrix entry or row, which the idx or the input already *)
(* determines, is not carried in the line.                                 *)
(***************************************************************************)
EXTENDS Integers, Sequences, FiniteSets, TLC

VARIABLES table, kwargs, pc, idx, report_lines, valid_table, exc,
          format_version_attr, status_msg

vars == <<table, kwargs, pc, idx, report_lines, valid_table, exc,
          format_version_attr, status_msg>>

(***************************************************************************)
(* Bounds of the model.                                                    *)
(***************************************************************************)
\* largest declared dimension, index and ID count drawn for an input
MaxDim == 1
\* largest number of entries (sparse) or rows (dense) of a data block
MaxLen == 2
\* largest number of fields of a document that differ from a conformant one
MaxDeviations == 2

Threads == {1, 2}

(***************************************************************************)
(* Python values.                                                          *)
(***************************************************************************)
PyInt(n) == [ty |-> "int", n |-> n, s |-> ""]
PyFloat(n) == [ty |-> "float", n |-> n, s |-> ""]
PyBool(b) == [ty |-> "bool", n |-> IF b THEN 1 ELSE 0, s |-> ""]
PyStr(s) == [ty |-> "str", n |-> 0, s |-> s]
PyUnicode(s) == [ty |-> "unicode", n |-> 0, s |-> s]
PyNone == [ty |-> "NoneType", n |-> 0, s |-> ""]
PyDict == [ty |-> "dict", n |-> 0, s |-> ""]

IsNumber(v) == v.ty \in {"int", "bool", "float"}
IsText(v) == v.ty \in {"str", "unicode"}

\* Python's ==: numbers compare by value, str and unicode by their text
PyEq(v, w) ==
    IF IsNumber(v) /\ IsNumber(w) THEN v.n = w.n
    ELSE IF IsText(v) /\ IsText(w) THEN v.s = w.s
    ELSE v.ty = w.ty /\ v.n = w.n /\ v.s = w.s

\* Python's truth value of a scalar
Truthy(v) ==
    IF IsNumber(v) THEN v.n # 0
    ELSE IF IsText(v) THEN v.s # ""
    ELSE v.ty # "NoneType"

\* a method's outcome: a returned report line, or a raised exception
Line(msg, a, b, i) == [msg |-> msg, a |-> a, b |-> b, idx |-> i]
NoMsg == Line("", "", "", 0)
Ret(line) == [exc |-> "", line |-> line]
Raise(e) == [exc |-> e, line |-> NoMsg]

Range(f) == {f[x] : x \in DOMAIN f}

(***************************************************************************)
(* Class attributes.                                                       *)
(***************************************************************************)
FormatURL == "http://biom-format.org"
TableTypes == {"otu table", "pathway table", "function table",
               "ortholog table", "gene table", "metabolite table",
               "taxon table"}
MatrixTypes == {"sparse", "dense"}
ElementTypes == {"int", "str", "float", "unicode"}
HDF5FormatVersions == {<<PyInt(2), PyInt(0)>>}

\* isinstance(v, ElementTypes[name]); bool is a subclass of int
IsInstance(v, name) ==
    IF name = "int" THEN v.ty \in {"int", "bool"} ELSE v.ty = name

\* str.lower() on the strings the model draws
Lower(s) ==
    CASE s = "OTU table" -> "otu table"
      [] s = "Sparse" -> "sparse"
      [] OTHER -> s

(***************************************************************************)
(* Document accessors.  A flat document is [kind |-> "json", fields]; a    *)
(* hierarchical one is [kind |-> "hdf5", attrs, groups, datasets], where   *)
(* datasets maps each dataset path present to its length.                  *)
(***************************************************************************)
HasAttrs(t) == t.kind = "hdf5"

Mapping(t) == IF HasAttrs(t) THEN t.attrs ELSE t.fields

Has(t, key) == key \in DOMAIN Mapping(t)

\* str.replace('_', '-') on the three canonical names it is applied to
_json_or_hdf5_key(t, key) ==
    IF HasAttrs(t)
    THEN CASE key = "format_url" -> "format-url"
           [] key = "generated_by" -> "generated-by"
           [] OTHER -> key
    ELSE key

_is_int(x) == x.ty \in {"int", "bool"}

(***************************************************************************)
(* Rules.  Each takes the whole document and gives Ret(line) (NoMsg for    *)
(* the empty string) or Raise(exception).  The driver calls a rule only    *)
(* when its own key is present; sibling keys it reads may be absent.       *)
(***************************************************************************)
_valid_nnz(t) ==
    LET v == t.attrs["nnz"] IN
    IF ~ (v.ty \in {"int", "bool"})
    THEN Ret(Line("nnz is not an integer!", "", "", 0))
    ELSE IF v.n < 0 THEN Ret(Line("nnz is negative!", "", "", 0))
    ELSE Ret(NoMsg)

_valid_format_url(t) ==
    LET key == _json_or_hdf5_key(t, "format_url") IN
    IF ~ Has(t, key) \/ ~ PyEq(Mapping(t)[key], PyStr(FormatURL))
    THEN Ret(Line("Invalid '%s'", key, "", 0))
    ELSE Ret(NoMsg)

_valid_shape(t) ==
    LET shape == Mapping(t)["shape"] IN
    IF Len(shape) # 2 THEN Raise("ValueError")
    ELSE IF ~ (_is_int(shape[1]) /\ _is_int(shape[2]))
    THEN Ret(Line("'shape' values do not appear to be integers", "", "", 0))
    ELSE Ret(NoMsg)

_valid_matrix_type(t) ==
    LET v == t.fields["matrix_type"] IN
    IF ~ (IsText(v) /\ v.s \in MatrixTypes)
    THEN Ret(Line("Unknown 'matrix_type'", "", "", 0))
    ELSE Ret(NoMsg)

_valid_matrix_element_type(t) ==
    LET v == t.fields["matrix_element_type"] IN
    IF ~ (IsText(v) /\ v.s \in ElementTypes)
    THEN Ret(Line("Unknown 'matrix_element_type'", "", "", 0))
    ELSE Ret(NoMsg)

\* datetime.strptime(val, fmt) succeeds, on the date strings the model draws
Strptime(s, fmt) ==
    CASE s = "2011-12-19" -> fmt = "%Y-%m-%d"
      [] s = "2011-12-19T19:00" -> fmt = "%Y-%m-%dT%H:%M"
      [] s = "2011-12-19T19:00:00" -> fmt = "%Y-%m-%dT%H:%M:%S"
      [] s = "2011-12-19T19:00:00.123456" -> fmt = "%Y-%m-%dT%H:%M:%S.%f"
      [] OTHER -> FALSE

_check_date(val) ==
    LET valid_times == <<"%Y-%m-%d", "%Y-%m-%dT%H:%M", "%Y-%m-%dT%H:%M:%S",
                         "%Y-%m-%dT%H:%M:%S.%f">>
        \* a non-string makes strptime raise, which the bare except absorbs
        valid_time == \E k \in DOMAIN valid_times :
                          IsText(val) /\ Strptime(val.s, valid_times[k])
    IN IF valid_time THEN Ret(NoMsg)
       ELSE Ret(Line("Timestamp does not appear to be ISO 8601", "", "", 0))

_valid_creation_date(t) == _check_date(t.attrs["creation-date"])

_valid_datetime(t) == _check_date(t.fields["date"])


\* one iteration of the for loop of _valid_sparse_data on entry idx = i
SparseEntry(coord, i, dtype, n_rows, n_cols) ==
    IF Len(coord) # 3
    THEN Line("Bad matrix entry idx %d: %s", "", "", i)
    ELSE LET x == coord[1]
             y == coord[2]
             val == coord[3]
         IN IF ~ _is_int(x) \/ ~ _is_int(y)
            THEN Line("Bad x or y type at idx %d: %s", "", "", i)
            ELSE IF ~ IsInstance(val, dtype)
            THEN Line("Bad value at idx %d: %s", "", "", i)
            ELSE IF x.n < 0 \/ x.n > n_rows
            THEN Line("x out of bounds at idx %d: %s", "", "", i)
            ELSE IF y.n < 0 \/ y.n > n_cols
            THEN Line("y out of bounds at idx %d: %s", "", "", i)
            ELSE NoMsg

\* the for loop of _valid_sparse_data from position k (idx = k - 1)
RECURSIVE SparseLoop(_, _, _, _, _)
SparseLoop(data, k, dtype, n_rows, n_cols) ==
    IF k > Len(data) THEN Ret(NoMsg)
    ELSE LET m == SparseEntry(data[k], k - 1, dtype, n_rows, n_cols)
         IN IF m # NoMsg THEN Ret(m)
            ELSE SparseLoop(data, k + 1, dtype, n_rows, n_cols)

\* a faulty variant: the dimensions are not adjusted to 0-based indices
_valid_sparse_data_NoAdjust(t) ==
    IF ~ Has(t, "matrix_element_type") THEN Raise("KeyError")
    ELSE IF ~ (IsText(t.fields["matrix_element_type"])
               /\ t.fields["matrix_element_type"].s \in ElementTypes)
    THEN Raise("KeyError")
    ELSE IF ~ Has(t, "shape") THEN Raise("KeyError")
    ELSE IF Len(t.fields["shape"]) # 2 THEN Raise("ValueError")
    ELSE IF ~ (IsNumber(t.fields["shape"][1])
               /\ IsNumber(t.fields["shape"][2]))
    THEN Raise("TypeError")
    ELSE SparseLoop(t.fields["data"], 1,
                    t.fields["matrix_element_type"].s,
                    t.fields["shape"][1].n,
                    t.fields["shape"][2].n)

_valid_sparse_data(t) ==
    IF ~ Has(t, "matrix_element_type") THEN Raise("KeyError")
    ELSE IF ~ (IsText(t.fields["matrix_element_type"])
               /\ t.fields["matrix_element_type"].s \in ElementTypes)
    THEN Raise("KeyError")
    ELSE IF ~ Has(t, "shape") THEN Raise("KeyError")
    ELSE IF Len(t.fields["shape"]) # 2 THEN Raise("ValueError")
    ELSE IF ~ (IsNumber(t.fields["shape"][1])
               /\ IsNumber(t.fields["shape"][2]))
    THEN Raise("TypeError")
    ELSE SparseLoop(t.fields["data"], 1,
                    t.fields["matrix_element_type"].s,
                    t.fields["shape"][1].n - 1,
                    t.fields["shape"][2].n - 1)

\* the for loop of _valid_dense_data from row k; reduce(and_, []) raises
RECURSIVE DenseLoop(_, _, _, _)
DenseLoop(data, k, dtype, n_cols) ==
    IF k > Len(data) THEN Ret(NoMsg)
    ELSE LET row == data[k] IN
         IF ~ PyEq(PyInt(Len(row)), n_cols)
         THEN Ret(Line("Incorrect number of cols: %s", "", "", k - 1))
         ELSE IF Len(row) = 0 THEN Raise("TypeError")
         ELSE IF ~ (\A j \in DOMAIN row : IsInstance(row[j], dtype))
         THEN Ret(Line("Bad datatype in row: %s", "", "", k - 1))
         ELSE DenseLoop(data, k + 1, dtype, n_cols)

\* a faulty variant: the number of rows is compared before the rows are read
_valid_dense_data_CountFirst(t) ==
    IF ~ Has(t, "matrix_element_type") THEN Raise("KeyError")
    ELSE IF ~ (IsText(t.fields["matrix_element_type"])
               /\ t.fields["matrix_element_type"].s \in ElementTypes)
    THEN Raise("KeyError")
    ELSE IF ~ Has(t, "shape") THEN Raise("KeyError")
    ELSE IF Len(t.fields["shape"]) # 2 THEN Raise("ValueError")
    ELSE IF ~ PyEq(PyInt(Len(t.fields["data"])), t.fields["shape"][1])
    THEN Ret(Line("Incorrect number of rows in matrix", "", "", 0))
    ELSE DenseLoop(t.fields["data"], 1,
                   t.fields["matrix_element_type"].s,
                   t.fields["shape"][2])

_valid_dense_data(t) ==
    IF ~ Has(t, "matrix_element_type") THEN Raise("KeyError")
    ELSE IF ~ (IsText(t.fields["matrix_element_type"])
               /\ t.fields["matrix_element_type"].s \in ElementTypes)
    THEN Raise("KeyError")
    ELSE IF ~ Has(t, "shape") THEN Raise("KeyError")
    ELSE IF Len(t.fields["shape"]) # 2 THEN Raise("ValueError")
    ELSE LET scan == DenseLoop(t.fields["data"], 1,
                               t.fields["matrix_element_type"].s,
                               t.fields["shape"][2])
         IN IF scan # Ret(NoMsg) THEN scan
            ELSE IF ~ PyEq(PyInt(Len(t.fields["data"])), t.fields["shape"][1])
            THEN Ret(Line("Incorrect number of rows in matrix", "", "", 0))
            ELSE Ret(NoMsg)

_valid_hdf5_format_version(t) ==
    LET ver == t.attrs["format-version"] IN
    IF \E hv \in HDF5FormatVersions :
           /\ Len(ver) = Len(hv)
           /\ \A k \in DOMAIN hv : PyEq(ver[k], hv[k])
    THEN Ret(NoMsg)
    ELSE Ret(Line("Invalid format version '%s'", "", "", 0))

\* reads self._format_version, the attribute _validate_json stored last
_valid_format(t, self_format_version) ==
    IF ~ PyEq(t.fields["format"], PyStr(self_format_version))
    THEN Ret(Line("Invalid format '%s', must be '%s'",
                  t.fields["format"].s, self_format_version, 0))
    ELSE Ret(NoMsg)

_valid_type(t) ==
    LET key == _json_or_hdf5_key(t, "type")
        value == Mapping(t)[key]
    IN IF ~ IsText(value) THEN Raise("AttributeError")
       ELSE IF Lower(value.s) \notin TableTypes
       THEN Ret(Line("Unknown BIOM type: %s", value.s, "", 0))
       ELSE Ret(NoMsg)

_valid_generated_by(t) ==
    LET key == _json_or_hdf5_key(t, "generated_by") IN
    IF ~ Has(t, key) \/ ~ Truthy(Mapping(t)[key])
    THEN Ret(Line("'generated_by' is not populated", "", "", 0))
    ELSE Ret(NoMsg)

_valid_nullable_id(t) == Ret(NoMsg)

_valid_id(record) ==
    IF ~ Truthy(record["id"])
    THEN Line("'id' in %s appears empty", "", "", 0)
    ELSE NoMsg

_valid_metadata(record) ==
    IF record["metadata"].ty \in {"NoneType", "dict"}
    THEN NoMsg
    ELSE Line("metadata is neither null or an object", "", "", 0)

\* the loops of _valid_rows / _valid_columns over the records from k
RecordCheck(record, i, missing) ==
    IF "id" \notin DOMAIN record THEN Line(missing, "id", "", i)
    ELSE IF _valid_id(record) # NoMsg THEN _valid_id(record)
    ELSE IF "metadata" \notin DOMAIN record
    THEN Line(missing, "metadata", "", i)
    ELSE _valid_metadata(record)

RECURSIVE RecordLoop(_, _, _)
RecordLoop(records, k, missing) ==
    IF k > Len(records) THEN Ret(NoMsg)
    ELSE LET m == RecordCheck(records[k], k - 1, missing)
         IN IF m # NoMsg THEN Ret(m)
            ELSE RecordLoop(records, k + 1, missing)

_valid_rows(t) ==
    IF ~ Has(t, "type") THEN Raise("KeyError")
    ELSE IF ~ IsText(t.fields["type"]) THEN Raise("AttributeError")
    ELSE RecordLoop(t.fields["rows"], 1, "ROW IDX %d MISSING '%s' FIELD")

_valid_columns(t) ==
    IF ~ Has(t, "type") THEN Raise("KeyError")
    ELSE IF ~ IsText(t.fields["type"]) THEN Raise("AttributeError")
    ELSE RecordLoop(t.fields["columns"], 1, "COL IDX %d MISSING '%s' FIELD")

_valid_data(t) ==
    IF ~ Has(t, "matrix_type") THEN Raise("KeyError")
    ELSE IF ~ IsText(t.fields["matrix_type"]) THEN Raise("AttributeError")
    ELSE IF Lower(t.fields["matrix_type"].s) = "sparse"
    THEN _valid_sparse_data(t)
    ELSE IF Lower(t.fields["matrix_type"].s) = "dense"
    THEN _valid_dense_data(t)
    ELSE Ret(Line("Unknown matrix type", "", "", 0))

(***************************************************************************)
(* The drivers.  A run's locals are the record                             *)
(* [pc, idx, report_lines, valid_table, exc]; each operator below is one   *)
(* stretch of _validate_json / _validate_hdf5 as a function on it.         *)
(***************************************************************************)
required_attrs == <<"format-url", "format-version", "type", "shape", "nnz",
                    "generated-by", "id", "creation-date">>

required_groups == <<"observation", "sample">>

required_datasets == <<"observation/ids", "observation/data",
                       "observation/indices", "observation/indptr",
                       "sample/ids", "sample/data", "sample/indices",
                       "sample/indptr">>

required_keys == <<"format", "format_url", "type", "rows", "columns",
                   "shape", "data", "matrix_type", "matrix_element_type",
                   "generated_by", "id", "date">>

Required(t) == IF HasAttrs(t) THEN required_attrs ELSE required_keys

\* the method the rule table pairs with key
Method(t, key, self_format_version) ==
    IF HasAttrs(t)
    THEN CASE key = "format-url" -> _valid_format_url(t)
           [] key = "format-version" -> _valid_hdf5_format_version(t)
           [] key = "type" -> _valid_type(t)
           [] key = "shape" -> _valid_shape(t)
           [] key = "nnz" -> _valid_nnz(t)
           [] key = "generated-by" -> _valid_generated_by(t)
           [] key = "id" -> _valid_nullable_id(t)
           [] key = "creation-date" -> _valid_creation_date(t)
    ELSE CASE key = "format" -> _valid_format(t, self_format_version)
           [] key = "format_url" -> _valid_format_url(t)
           [] key = "type" -> _valid_type(t)
           [] key = "rows" -> _valid_rows(t)
           [] key = "columns" -> _valid_columns(t)
           [] key = "shape" -> _valid_shape(t)
           [] key = "data" -> _valid_data(t)
           [] key = "matrix_type" -> _valid_matrix_type(t)
           [] key = "matrix_element_type" -> _valid_matrix_element_type(t)
           [] key = "generated_by" -> _valid_generated_by(t)
           [] key = "id" -> _valid_nullable_id(t)
           [] key = "date" -> _valid_datetime(t)

Fail(st, line) ==
    [st EXCEPT !.valid_table = FALSE,
               !.report_lines = Append(st.report_lines, line)]

Say(st, detailed_report, line) ==
    IF detailed_report
    THEN [st EXCEPT !.report_lines = Append(st.report_lines, line)]
    ELSE st

Abort(st, e) == [st EXCEPT !.pc = "raised", !.exc = e]

\* the locals before the call
Idle == [pc |-> "call", idx |-> 0, report_lines |-> <<>>,
         valid_table |-> TRUE, exc |-> ""]

\* entry of the method up to the rule table
Enter(kw) ==
    Say([Idle EXCEPT !.pc = "fields", !.idx = 1], kw.detailed_report,
        Line("Validating BIOM table...", "", "", 0))

\* one iteration of the loop over the rule table, for key number st.idx
FieldIteration(st, t, kw, self_format_version) ==
    LET key == Required(t)[st.idx]
        next == IF st.idx < Len(Required(t))
                THEN [pc |-> "fields", idx |-> st.idx + 1]
                ELSE [pc |-> IF HasAttrs(t) THEN "groups" ELSE "cross",
                      idx |-> 0]
        Advance(s) == [s EXCEPT !.pc = next.pc, !.idx = next.idx]
    IN IF ~ Has(t, key)
       THEN Advance(Fail(st, Line(IF HasAttrs(t)
                                  THEN "Missing attribute: '%s'"
                                  ELSE "Missing field: '%s'", key, "", 0)))
       ELSE LET st1 == Say(st, kw.detailed_report,
                           Line("Validating '%s'...", key, "", 0))
                res == Method(t, key, self_format_version)
            IN IF res.exc # "" THEN Abort(st1, res.exc)
               ELSE IF res.line # NoMsg THEN Advance(Fail(st1, res.line))
               ELSE Advance(st1)

\* the loop over required_groups / required_datasets from position k
RECURSIVE MemberLoop(_, _, _, _, _, _)
MemberLoop(st, names, k, present, detailed_report, msg) ==
    IF k > Len(names) THEN st
    ELSE IF names[k] \in present
    THEN MemberLoop(st, names, k + 1, present, detailed_report, msg)
    ELSE MemberLoop(Say([st EXCEPT !.valid_table = FALSE], detailed_report,
                        Line(msg, names[k], "", 0)),
                    names, k + 1, present, detailed_report, msg)

GroupsLoop(st, t, kw) ==
    [MemberLoop(st, required_groups, 1, t.groups, kw.detailed_report,
                "Missing group: %s") EXCEPT !.pc = "datasets"]

DatasetsLoop(st, t, kw) ==
    [MemberLoop(st, required_datasets, 1, DOMAIN t.datasets,
                kw.detailed_report, "Missing dataset: %s")
     EXCEPT !.pc = "cross"]

\* 'shape' against the ID datasets, and the return
CrossCheckHdf5(st, t, kw) ==
    IF ~ Has(t, "shape") THEN [st EXCEPT !.pc = "done"]
    ELSE
    LET st1 == Say(st, kw.detailed_report,
                   Line("Validating 'shape' versus number of samples and observations...",
                        "", "", 0))
        shape == t.attrs["shape"]
        obs_none == "observation/ids" \notin DOMAIN t.datasets
        samp_none == "sample/ids" \notin DOMAIN t.datasets
        st2 == IF obs_none
               THEN Fail(st1, Line("observation/ids does not exist, cannot validate shape",
                                   "", "", 0))
               ELSE st1
        st3 == IF samp_none
               THEN Fail(st2, Line("sample/ids does not exist, cannot validate shape",
                                   "", "", 0))
               ELSE st2
    IN IF Len(shape) # 2 THEN Abort(st1, "ValueError")
       ELSE IF obs_none THEN Abort(st3, "TypeError")
       ELSE
       LET st4 == IF ~ PyEq(shape[1], PyInt(t.datasets["observation/ids"]))
                  THEN Fail(st3, Line("Number of observation IDs is not equal to the described shape",
                                      "", "", 0))
                  ELSE st3
       IN IF samp_none THEN Abort(st4, "TypeError")
          ELSE IF ~ PyEq(shape[2], PyInt(t.datasets["sample/ids"]))
          THEN [Fail(st4, Line("Number of sample IDs is not equal to the described shape",
                               "", "", 0)) EXCEPT !.pc = "done"]
          ELSE [st4 EXCEPT !.pc = "done"]

\* a faulty variant: the columns are compared only when the rows matched
CrossCheckJson_Elif(st, t, kw) ==
    IF ~ Has(t, "shape") THEN [st EXCEPT !.pc = "done"]
    ELSE
    LET st1 == Say(st, kw.detailed_report,
                   Line("Validating 'shape' versus number of rows and columns...",
                        "", "", 0))
        shape == t.fields["shape"]
    IN IF Has(t, "rows") /\ Len(shape) < 1 THEN Abort(st1, "IndexError")
       ELSE IF Has(t, "rows")
               /\ ~ PyEq(PyInt(Len(t.fields["rows"])), shape[1])
       THEN [Fail(st1, Line("Number of rows in 'rows' is not equal to 'shape'",
                            "", "", 0)) EXCEPT !.pc = "done"]
       ELSE IF Has(t, "columns") /\ Len(shape) < 2
       THEN Abort(st1, "IndexError")
       ELSE IF Has(t, "columns")
               /\ ~ PyEq(PyInt(Len(t.fields["columns"])), shape[2])
       THEN [Fail(st1, Line("Number of columns in 'columns' is not equal to 'shape'",
                            "", "", 0)) EXCEPT !.pc = "done"]
       ELSE [st1 EXCEPT !.pc = "done"]

\* 'shape' against 'rows' and 'columns', and the return
CrossCheckJson(st, t, kw) ==
    IF ~ Has(t, "shape") THEN [st EXCEPT !.pc = "done"]
    ELSE
    LET st1 == Say(st, kw.detailed_report,
                   Line("Validating 'shape' versus number of rows and columns...",
                        "", "", 0))
        shape == t.fields["shape"]
    IN IF Has(t, "rows") /\ Len(shape) < 1 THEN Abort(st1, "IndexError")
       ELSE
       LET st2 == IF Has(t, "rows")
                     /\ ~ PyEq(PyInt(Len(t.fields["rows"])), shape[1])
                  THEN Fail(st1, Line("Number of rows in 'rows' is not equal to 'shape'",
                                      "", "", 0))
                  ELSE st1
       IN IF Has(t, "columns") /\ Len(shape) < 2
          THEN Abort(st2, "IndexError")
          ELSE IF Has(t, "columns")
                  /\ ~ PyEq(PyInt(Len(t.fields["columns"])), shape[2])
          THEN [Fail(st2, Line("Number of columns in 'columns' is not equal to 'shape'",
                               "", "", 0)) EXCEPT !.pc = "done"]
          ELSE [st2 EXCEPT !.pc = "done"]

CrossCheck(st, t, kw) ==
    IF HasAttrs(t) THEN CrossCheckHdf5(st, t, kw)
    ELSE CrossCheckJson(st, t, kw)

(***************************************************************************)
(* Inputs: documents built from a conformant one by replacing or removing  *)
(* fields.                                                                 *)
(***************************************************************************)
FormatVersions == {"1.0.0", "2.0.0"}

NTimes(x, n) == [i \in 1..n |-> x]

SeqsUpTo(S, n) == UNION {[1..k -> S] : k \in 0..n}

GoodRecord == [id |-> PyStr("r1"), metadata |-> PyNone]

\* lists of row / column records: every length up to MaxDim + 1 of good
\* records, a record with object metadata, and the four kinds of bad record
RecordLists ==
    [n \in 1..(MaxDim + 2) |-> NTimes(GoodRecord, n - 1)]
    \o << <<[id |-> PyUnicode("r1"), metadata |-> PyDict]>>,
          <<[metadata |-> PyNone]>>,
          <<[id |-> PyStr(""), metadata |-> PyNone]>>,
          <<[id |-> PyStr("r1")]>>,
          <<[id |-> PyStr("r1"), metadata |-> PyStr("x")]>> >>

\* values a 'shape' component may hold: -1 .. MaxDim, 1.0, "1", True
ShapeVals ==
    [n \in 1..(MaxDim + 2) |-> PyInt(n - 2)]
    \o <<PyFloat(1), PyStr("1"), PyBool(TRUE)>>

\* every pair over ShapeVals, then a 1-tuple and a 3-tuple
ShapeLists ==
    [p \in 1..(Len(ShapeVals) * Len(ShapeVals)) |->
        <<ShapeVals[((p - 1) \div Len(ShapeVals)) + 1],
          ShapeVals[((p - 1) % Len(ShapeVals)) + 1]>>]
    \o << <<PyInt(1)>>, <<PyInt(1), PyInt(1), PyInt(1)>> >>

SparseBlock(R, C) ==
    IF R >= 1 /\ C >= 1 THEN << <<PyInt(0), PyInt(0), PyInt(5)>> >> ELSE <<>>

DenseBlock(R, C) == NTimes(NTimes(PyInt(5), C), R)

\* data blocks a document may hold in place of the conformant one
DataLists(b) ==
    << SparseBlock(b.R, b.C), DenseBlock(b.R, b.C),
       << <<PyInt(b.R), PyInt(0), PyInt(5)>> >>,
       << <<PyInt(0), PyInt(0), PyFloat(5)>> >>,
       << <<PyInt(0), PyInt(0)>> >>,
       Append(DenseBlock(b.R, b.C), NTimes(PyInt(5), b.C)),
       << NTimes(PyFloat(5), b.C + 1) >> >>

\* the conformant flat document of R rows and C columns
BaseJson(b) ==
    [format |-> PyStr(b.ver),
     format_url |-> PyStr(FormatURL),
     type |-> PyStr("OTU table"),
     rows |-> NTimes(GoodRecord, b.R),
     columns |-> NTimes(GoodRecord, b.C),
     shape |-> <<PyInt(b.R), PyInt(b.C)>>,
     data |-> IF b.mtype = "sparse" THEN SparseBlock(b.R, b.C)
              ELSE DenseBlock(b.R, b.C),
     matrix_type |-> PyStr(b.mtype),
     matrix_element_type |-> PyStr("int"),
     generated_by |-> PyStr("test"),
     id |-> PyNone,
     date |-> PyStr("2011-12-19T19:00:00")]

DateVals == <<PyStr("2011-12-19"), PyStr("19 Dec 2011"), PyNone>>

\* the values that may replace field key of a flat document
JsonAlts(key, b) ==
    CASE key = "format" -> <<PyStr("1.0.0"), PyStr("2.0.0")>>
      [] key = "format_url" -> <<PyStr("http://example.org")>>
      [] key = "type" -> <<PyStr("bogus table"), PyInt(1)>>
      [] key = "rows" -> RecordLists
      [] key = "columns" -> RecordLists
      [] key = "shape" -> ShapeLists
      [] key = "data" -> DataLists(b)
      [] key = "matrix_type" ->
             <<PyStr("sparse"), PyStr("dense"), PyStr("Sparse"),
               PyStr("bogus"), PyInt(1)>>
      [] key = "matrix_element_type" ->
             <<PyStr("float"), PyStr("bogus")>>
      [] key = "generated_by" -> <<PyStr("")>>
      [] key = "id" -> <<PyStr("x")>>
      [] key = "date" -> DateVals

\* the conformant hierarchical document: attributes, and dataset lengths
BaseAttrs(b) ==
    [k \in Range(required_attrs) |->
        CASE k = "format-url" -> PyStr(FormatURL)
          [] k = "format-version" -> <<PyInt(2), PyInt(0)>>
          [] k = "type" -> PyStr("OTU table")
          [] k = "shape" -> <<PyInt(b.R), PyInt(b.C)>>
          [] k = "nnz" -> PyInt(b.R * b.C)
          [] k = "generated-by" -> PyStr("test")
          [] k = "id" -> PyNone
          [] k = "creation-date" -> PyStr("2011-12-19T19:00:00")]

BaseLength(d, b) ==
    CASE d = "observation/ids" -> b.R
      [] d = "sample/ids" -> b.C
      [] d \in {"observation/indptr"} -> b.R + 1
      [] d \in {"sample/indptr"} -> b.C + 1
      [] OTHER -> b.R * b.C

GroupOf(d) ==
    IF d \in {"observation/ids", "observation/data", "observation/indices",
              "observation/indptr"}
    THEN "observation" ELSE "sample"

\* the values that may replace an attribute, or the length of an ID dataset
Hdf5Alts(key, b) ==
    CASE key = "format-url" -> <<PyStr("http://example.org")>>
      [] key = "format-version" ->
             << <<PyInt(1), PyInt(0)>>, <<PyFloat(2), PyInt(0)>>,
                <<PyInt(2)>> >>
      [] key = "type" -> <<PyStr("bogus table"), PyInt(1)>>
      [] key = "shape" -> ShapeLists
      [] key = "nnz" -> <<PyInt(-1), PyFloat(1)>>
      [] key = "generated-by" -> <<PyStr("")>>
      [] key = "id" -> <<PyStr("x")>>
      [] key = "creation-date" -> DateVals
      [] key \in {"observation/ids", "sample/ids"} ->
             [n \in 1..(MaxDim + 2) |-> n - 1]
      [] OTHER -> <<>>

Items(kind) ==
    IF kind = "hdf5"
    THEN Range(required_attrs) \cup Range(required_groups)
         \cup Range(required_datasets)
    ELSE Range(required_keys)

Alts(kind, key, b) ==
    IF kind = "hdf5" THEN Hdf5Alts(key, b) ELSE JsonAlts(key, b)

\* the document that differs from the conformant one on the items of D:
\* item k is removed when c[k] = 0 and holds its c[k]-th alternative else
Document(kind, b, D, c) ==
    LET gone == {k \in D : c[k] = 0}
        New(k, old) == IF k \in D THEN Alts(kind, k, b)[c[k]] ELSE old
    IN IF kind = "hdf5"
       THEN [kind |-> "hdf5",
             attrs |-> [k \in Range(required_attrs) \ gone |->
                           New(k, BaseAttrs(b)[k])],
             groups |-> Range(required_groups) \ gone,
             datasets |-> [d \in {e \in Range(required_datasets) \ gone :
                                     GroupOf(e) \notin gone} |->
                              New(d, BaseLength(d, b))]]
       ELSE [kind |-> "json",
             fields |-> [k \in Range(required_keys) \ gone |->
                            New(k, BaseJson(b)[k])]]

Bases(kind) ==
    IF kind = "hdf5"
    THEN [R : 0..MaxDim, C : 0..MaxDim, mtype : {"sparse"}, ver : {"2.0.0"}]
    ELSE [R : 0..MaxDim, C : 0..MaxDim, mtype : MatrixTypes,
          ver : FormatVersions]

\* the choice functions on the items of D: 0 removes the item, n > 0
\* replaces it by its n-th alternative
RECURSIVE Choices(_, _, _)
Choices(kind, b, D) ==
    IF D = {} THEN {<<>>}
    ELSE LET k0 == CHOOSE k \in D : TRUE
         IN {[k \in D |-> IF k = k0 THEN n ELSE c[k]] :
                c \in Choices(kind, b, D \ {k0}),
                n \in 0..Len(Alts(kind, k0, b))}

\* the sets of at most dev items
Deviations(kind, dev) ==
    {D \in SUBSET Items(kind) : Cardinality(D) <= dev}

NoTable == [kind |-> "none"]
NoArgs == [format_version |-> "", detailed_report |-> FALSE]

(***************************************************************************)
(* State: per thread r, the arguments of its call (table, kwargs) and the  *)
(* locals of its run (pc, idx, report_lines, valid_table, exc);            *)
(* format_version_attr is self._format_version of the one TableValidator   *)
(* instance; status_msg is the outcome of a rule called on its own.        *)
(***************************************************************************)
Locals(r) == [pc |-> pc[r], idx |-> idx[r], report_lines |-> report_lines[r],
              valid_table |-> valid_table[r], exc |-> exc[r]]

Store(r, st) ==
    /\ pc' = [pc EXCEPT ![r] = st.pc]
    /\ idx' = [idx EXCEPT ![r] = st.idx]
    /\ report_lines' = [report_lines EXCEPT ![r] = st.report_lines]
    /\ valid_table' = [valid_table EXCEPT ![r] = st.valid_table]
    /\ exc' = [exc EXCEPT ![r] = st.exc]

\* the state in which thread 1 is about to run on document t with kw
Start1(t, kw, at) ==
    /\ table = [r \in Threads |-> IF r = 1 THEN t ELSE NoTable]
    /\ kwargs = [r \in Threads |-> IF r = 1 THEN kw ELSE NoArgs]
    /\ pc = [r \in Threads |-> IF r = 1 THEN at ELSE "idle"]
    /\ idx = [r \in Threads |-> 0]
    /\ report_lines = [r \in Threads |-> <<>>]
    /\ valid_table = [r \in Threads |-> TRUE]
    /\ exc = [r \in Threads |-> ""]
    /\ format_version_attr = ""
    /\ status_msg = Ret(NoMsg)

Init ==
    \E kind \in {"json", "hdf5"} :
      \E b \in Bases(kind), D \in Deviations(kind, MaxDeviations),
         dr \in BOOLEAN :
        \E c \in Choices(kind, b, D) :
             Start1(Document(kind, b, D, c),
                    [format_version |-> b.ver, detailed_report |-> dr],
                    "call")

\* _validate_json / _validate_hdf5 up to the loop over the rule table
Call(r) ==
    /\ pc[r] = "call"
    /\ Store(r, Enter(kwargs[r]))
    /\ format_version_attr' = IF HasAttrs(table[r]) THEN format_version_attr
                              ELSE kwargs[r].format_version
    /\ UNCHANGED <<table, kwargs, status_msg>>

\* one iteration of the loop over the rule table
FieldStep(r) ==
    /\ pc[r] = "fields"
    /\ Store(r, FieldIteration(Locals(r), table[r], kwargs[r],
                               format_version_attr))
    /\ UNCHANGED <<table, kwargs, format_version_attr, status_msg>>

\* the loop over required_groups
GroupsStep(r) ==
    /\ pc[r] = "groups"
    /\ Store(r, GroupsLoop(Locals(r), table[r], kwargs[r]))
    /\ UNCHANGED <<table, kwargs, format_version_attr, status_msg>>

\* the loop over required_datasets
DatasetsStep(r) ==
    /\ pc[r] = "datasets"
    /\ Store(r, DatasetsLoop(Locals(r), table[r], kwargs[r]))
    /\ UNCHANGED <<table, kwargs, format_version_attr, status_msg>>

\* the shape cross-check and the return statement
CrossStep(r) ==
    /\ pc[r] = "cross"
    /\ Store(r, CrossCheck(Locals(r), table[r], kwargs[r]))
    /\ UNCHANGED <<table, kwargs, format_version_attr, status_msg>>

Next ==
    \E r \in Threads :
        \/ Call(r)
        \/ FieldStep(r)
        \/ GroupsStep(r)
        \/ DatasetsStep(r)
        \/ CrossStep(r)

Spec == Init /\ [][Next]_vars

(***************************************************************************)
(* The drivers run on documents that deviate from a conformant one only in *)
(* what the shape cross-check reads: 'shape' and the two ID collections.   *)
(***************************************************************************)
CrossItems(kind) ==
    IF kind = "hdf5" THEN {"shape", "observation/ids", "sample/ids"}
    ELSE {"shape", "rows", "columns"}

CrossBases(kind) == {b \in Bases(kind) : b.R = MaxDim /\ b.C = MaxDim}

InitCross ==
    \E kind \in {"json", "hdf5"} :
      \E b \in CrossBases(kind), D \in SUBSET CrossItems(kind),
         dr \in BOOLEAN :
        \E c \in Choices(kind, b, D) :
             Start1(Document(kind, b, D, c),
                    [format_version |-> b.ver, detailed_report |-> dr],
                    "call")

SpecCross == InitCross /\ [][Next]_vars

(***************************************************************************)
(* Two threads validate on the same TableValidator instance.               *)
(***************************************************************************)
InitConc ==
    /\ \E kinds \in [Threads -> {"json", "hdf5"}],
          docver \in [Threads -> FormatVersions],
          cfgver \in [Threads -> FormatVersions],
          dr \in [Threads -> BOOLEAN] :
         /\ table = [r \in Threads |->
                Document(kinds[r],
                         [R |-> MaxDim, C |-> MaxDim, mtype |-> "sparse",
                          ver |-> docver[r]], {}, <<>>)]
         /\ kwargs = [r \in Threads |->
                [format_version |-> cfgver[r], detailed_report |-> dr[r]]]
    /\ pc = [r \in Threads |-> "call"]
    /\ idx = [r \in Threads |-> 0]
    /\ report_lines = [r \in Threads |-> <<>>]
    /\ valid_table = [r \in Threads |-> TRUE]
    /\ exc = [r \in Threads |-> ""]
    /\ format_version_attr = ""
    /\ status_msg = Ret(NoMsg)

SpecConc == InitConc /\ [][Next]_vars

(***************************************************************************)
(* The rules _valid_shape, _valid_sparse_data and _valid_dense_data called *)
(* on their own: thread 1 holds the argument, status_msg the outcome.      *)
(***************************************************************************)
Only(kind, fields) ==
    IF kind = "hdf5"
    THEN [kind |-> "hdf5", attrs |-> fields, groups |-> {},
          datasets |-> <<>>]
    ELSE [kind |-> "json", fields |-> fields]

InitShape ==
    \E kind \in {"json", "hdf5"}, p \in DOMAIN ShapeLists :
        Start1(Only(kind, [shape |-> ShapeLists[p]]), NoArgs, "rule")

ValidShape ==
    /\ pc[1] = "rule"
    /\ status_msg' = _valid_shape(table[1])
    /\ pc' = [pc EXCEPT ![1] = "returned"]
    /\ UNCHANGED <<table, kwargs, idx, report_lines, valid_table, exc,
                   format_version_attr>>

SpecShape == InitShape /\ [][ValidShape]_vars

\* matrix entries: every (x, y, v) with x, y in -1 .. MaxDim and v an int
\* or a float, entries with a float or a str index, and a 2-tuple
SparseEntries ==
    {<<PyInt(x), PyInt(y), v>> :
        x \in -1..MaxDim, y \in -1..MaxDim, v \in {PyInt(5), PyFloat(5)}}
    \cup {<<PyFloat(0), PyInt(-1), v>> : v \in {PyInt(5), PyFloat(5)}}
    \cup {<<PyInt(0), PyStr("0"), v>> : v \in {PyInt(5), PyFloat(5)}}
    \cup {<<PyInt(0), PyInt(0)>>}

\* the argument of a matrix rule: the three fields it reads
MatrixArg(R, C, T, d) ==
    Only("json", [shape |-> <<PyInt(R), PyInt(C)>>,
                  matrix_element_type |-> PyStr(T), data |-> d])

InitSparse ==
    \E R \in 0..MaxDim, C \in 0..MaxDim, T \in {"int", "float"},
       n \in 0..MaxLen :
        \E d \in [1..n -> SparseEntries] :
            Start1(MatrixArg(R, C, T, d), NoArgs, "rule")

ValidSparseData ==
    /\ pc[1] = "rule"
    /\ status_msg' = _valid_sparse_data(table[1])
    /\ pc' = [pc EXCEPT ![1] = "returned"]
    /\ UNCHANGED <<table, kwargs, idx, report_lines, valid_table, exc,
                   format_version_attr>>

SpecSparse == InitSparse /\ [][ValidSparseData]_vars

\* rows of up to MaxDim + 1 ints and floats
DenseRows == SeqsUpTo({PyInt(5), PyFloat(5)}, MaxDim + 1)

InitDense ==
    \E R \in 0..MaxDim, C \in 0..MaxDim, T \in {"int", "float"},
       n \in 0..MaxLen :
        \E d \in [1..n -> DenseRows] :
            Start1(MatrixArg(R, C, T, d), NoArgs, "rule")

ValidDenseData ==
    /\ pc[1] = "rule"
    /\ status_msg' = _valid_dense_data(table[1])
    /\ pc' = [pc EXCEPT ![1] = "returned"]
    /\ UNCHANGED <<table, kwargs, idx, report_lines, valid_table, exc,
                   format_version_attr>>

SpecDense == InitDense /\ [][ValidDenseData]_vars

(***************************************************************************)
(* Vocabulary of the properties.                                           *)
(***************************************************************************)
IsProgress(line) ==
    line.msg \in {"Validating BIOM table...", "Validating '%s'...",
                  "Validating 'shape' versus number of samples and observations...",
                  "Validating 'shape' versus number of rows and columns..."}

\* the defect lines of thread r's report, in order
Defects(r) == SelectSeq(report_lines[r], LAMBDA l : ~ IsProgress(l))

Finished(r) == pc[r] \in {"done", "raised"}

IsPrefix(s, t) == Len(s) <= Len(t) /\ SubSeq(t, 1, Len(s)) = s

Count(seq, x) == Cardinality({i \in DOMAIN seq : seq[i] = x})

Least(S) == CHOOSE i \in S : \A j \in S : i <= j

MissingLine(t, k) ==
    Line(IF HasAttrs(t) THEN "Missing attribute: '%s'"
         ELSE "Missing field: '%s'", k, "", 0)

\* t is a conformant document (for configuration kw) without item k
LacksOnly(t, kw, k) ==
    \E b \in Bases(t.kind) :
        /\ kw.format_version = b.ver
        /\ t = Document(t.kind, b, {k}, [x \in {k} |-> 0])

\* t is a conformant document for configuration kw
Conformant(t, kw) ==
    \E b \in Bases(t.kind) :
        /\ kw.format_version = b.ver
        /\ t = Document(t.kind, b, {}, <<>>)

(***************************************************************************)
(* C1: a document that lacks exactly one required field (flat) or          *)
(* attribute (hierarchical) and is conformant otherwise is validated to    *)
(* the verdict false and a report whose only defect line names that field  *)
(* as missing.                                                             *)
(***************************************************************************)
C1_MissingFieldReported ==
    \A k \in Range(Required(table[1])) :
        (Finished(1) /\ LacksOnly(table[1], kwargs[1], k))
        => /\ pc[1] = "done"
           /\ ~ valid_table[1]
           /\ Defects(1) = <<MissingLine(table[1], k)>>

(***************************************************************************)
(* C2: a run that has started never aborts: no rule and no cross-check     *)
(* raises, whatever the document holds.                                    *)
(***************************************************************************)
C2_RunNeverAborts == \A r \in Threads : pc[r] # "raised"

(***************************************************************************)
(* C3: a conformant document whose declared shape equals its actual counts *)
(* is validated to the verdict true and a report without defect lines,     *)
(* empty when detailed_report is off.                                      *)
(***************************************************************************)
C3_ConformantAccepted ==
    (Finished(1) /\ Conformant(table[1], kwargs[1]))
    => /\ pc[1] = "done"
       /\ valid_table[1]
       /\ Defects(1) = <<>>
       /\ (~ kwargs[1].detailed_report => report_lines[1] = <<>>)

RowLine(t) ==
    Line(IF HasAttrs(t)
         THEN "Number of observation IDs is not equal to the described shape"
         ELSE "Number of rows in 'rows' is not equal to 'shape'", "", "", 0)

ColLine(t) ==
    Line(IF HasAttrs(t)
         THEN "Number of sample IDs is not equal to the described shape"
         ELSE "Number of columns in 'columns' is not equal to 'shape'",
         "", "", 0)

HasRows(t) ==
    IF HasAttrs(t) THEN "observation/ids" \in DOMAIN t.datasets
    ELSE Has(t, "rows")

HasCols(t) ==
    IF HasAttrs(t) THEN "sample/ids" \in DOMAIN t.datasets
    ELSE Has(t, "columns")

NRows(t) ==
    IF HasAttrs(t) THEN t.datasets["observation/ids"] ELSE Len(t.fields["rows"])

NCols(t) ==
    IF HasAttrs(t) THEN t.datasets["sample/ids"] ELSE Len(t.fields["columns"])

\* the count n is not the declared value v
Differs(n, v) == ~ (IsNumber(v) /\ v.n = n)

C5_ShapeCrossCheck ==
    LET t == table[1]
        shape == Mapping(t)["shape"]
        rep == Range(report_lines[1])
    IN (pc[1] = "done" /\ Has(t, "shape"))
       => /\ Len(shape) = 2
          /\ HasRows(t) => (RowLine(t) \in rep <=> Differs(NRows(t), shape[1]))
          /\ HasCols(t) => (ColLine(t) \in rep <=> Differs(NCols(t), shape[2]))
          /\ ~ HasRows(t) => RowLine(t) \notin rep
          /\ ~ HasCols(t) => ColLine(t) \notin rep
          /\ Count(report_lines[1], RowLine(t)) <= 1
          /\ Count(report_lines[1], ColLine(t)) <= 1
          /\ (RowLine(t) \in rep \/ ColLine(t) \in rep) => ~ valid_table[1]

\* a returned run whose rows mismatch the shape while its columns match
C5_RowMismatchOnly ==
    /\ pc[1] = "done"
    /\ Has(table[1], "shape") /\ HasRows(table[1]) /\ HasCols(table[1])
    /\ Differs(NRows(table[1]), Mapping(table[1])["shape"][1])
    /\ ~ Differs(NCols(table[1]), Mapping(table[1])["shape"][2])
    /\ RowLine(table[1]) \in Range(report_lines[1])

(***************************************************************************)
(* Vocabulary for the matrix rules: the argument thread 1 holds.           *)
(***************************************************************************)
ArgData == table[1].fields["data"]
ArgType == table[1].fields["matrix_element_type"].s
ArgRows == table[1].fields["shape"][1].n
ArgCols == table[1].fields["shape"][2].n

IsTriple(e) == Len(e) = 3
IntIndices(e) == e[1].ty \in {"int", "bool"} /\ e[2].ty \in {"int", "bool"}
XOutside(e, R) == IsNumber(e[1]) /\ (e[1].n < 0 \/ e[1].n > R - 1)
YOutside(e, C) == IsNumber(e[2]) /\ (e[2].n < 0 \/ e[2].n > C - 1)
OutOfBounds(e, R, C) == IsTriple(e) /\ (XOutside(e, R) \/ YOutside(e, C))
WrongValue(e, T) == IsTriple(e) /\ ~ IsInstance(e[3], T)

\* a 3-tuple with integer-typed in-range indices and a value of type T
GoodEntry(e, R, C, T) ==
    /\ IsTriple(e)
    /\ IntIndices(e)
    /\ ~ OutOfBounds(e, R, C)
    /\ ~ WrongValue(e, T)

Violating == {i \in DOMAIN ArgData :
                 ~ GoodEntry(ArgData[i], ArgRows, ArgCols, ArgType)}

BoundsMsgs == {"x out of bounds at idx %d: %s", "y out of bounds at idx %d: %s"}

\* the defect of the first check entry e fails, the checks taken in the
\* order: 3-tuple, index types, value type, x bounds, y bounds
FirstFailure(e, R, C, T) ==
    IF ~ IsTriple(e) THEN "Bad matrix entry idx %d: %s"
    ELSE IF ~ IntIndices(e) THEN "Bad x or y type at idx %d: %s"
    ELSE IF WrongValue(e, T) THEN "Bad value at idx %d: %s"
    ELSE IF XOutside(e, R) THEN "x out of bounds at idx %d: %s"
    ELSE "y out of bounds at idx %d: %s"

(***************************************************************************)
(* C6 as stated: _valid_sparse_data returns the empty result iff every     *)
(* entry is good; otherwise one defect naming the lowest violating index,  *)
(* which is an out-of-bounds defect whenever that entry is out of bounds   *)
(* and a value-type defect whenever its value does not match T.            *)
(***************************************************************************)
C6_SparseAlwaysBoundsAndType ==
    pc[1] = "returned" =>
        IF Violating = {} THEN status_msg = Ret(NoMsg)
        ELSE LET i == Least(Violating)
                 e == ArgData[i]
             IN /\ status_msg.exc = ""
                /\ status_msg.line # NoMsg
                /\ status_msg.line.idx = i - 1
                /\ OutOfBounds(e, ArgRows, ArgCols)
                       => status_msg.line.msg \in BoundsMsgs
                /\ WrongValue(e, ArgType)
                       => status_msg.line.msg = "Bad value at idx %d: %s"

(***************************************************************************)
(* C6 as amended: _valid_sparse_data returns the empty result iff every    *)
(* entry is good; otherwise one defect naming the lowest violating index,  *)
(* and the defect is that of the first check the entry fails, in the       *)
(* order: 3-tuple, integer-typed indices, value of type T, x in bounds,    *)
(* y in bounds.                                                            *)
(***************************************************************************)
C6_SparseFailFast ==
    pc[1] = "returned" =>
        IF Violating = {} THEN status_msg = Ret(NoMsg)
        ELSE LET i == Least(Violating)
             IN status_msg =
                    Ret(Line(FirstFailure(ArgData[i], ArgRows, ArgCols, ArgType),
                             "", "", i - 1))

\* the second entry is the first violating one: it is out of bounds and
\* wrongly typed, a third entry follows, and the value-type defect is given
C6_SecondEntryReported ==
    /\ pc[1] = "returned"
    /\ Len(ArgData) >= 2
    /\ Violating # {} /\ Least(Violating) = 2
    /\ OutOfBounds(ArgData[2], ArgRows, ArgCols)
    /\ WrongValue(ArgData[2], ArgType)
    /\ status_msg = Ret(Line("Bad value at idx %d: %s", "", "", 1))

(***************************************************************************)
(* Vocabulary for the dense rule.                                          *)
(***************************************************************************)
ColsLine(i) == Line("Incorrect number of cols: %s", "", "", i)
TypeLine(i) == Line("Bad datatype in row: %s", "", "", i)
RowsLine == Line("Incorrect number of rows in matrix", "", "", 0)

WrongLength(row, C) == Len(row) # C
WrongElement(row, T) == \E j \in DOMAIN row : ~ IsInstance(row[j], T)

\* the rows the per-row checks do not let pass: a wrong length, a wrongly
\* typed element, or no element at all (reduce has nothing to start from)
Stopping == {k \in DOMAIN ArgData :
                \/ WrongLength(ArgData[k], ArgCols)
                \/ WrongElement(ArgData[k], ArgType)
                \/ Len(ArgData[k]) = 0}

(***************************************************************************)
(* C7 as stated: a data block whose number of rows differs from R gives    *)
(* the row-count defect whatever its rows hold, and a row whose length     *)
(* differs from C gives the column-count defect.                           *)
(***************************************************************************)
C7_DenseRowCountRegardless ==
    pc[1] = "returned" =>
        /\ Len(ArgData) # ArgRows => status_msg = Ret(RowsLine)
        /\ (\E k \in DOMAIN ArgData : WrongLength(ArgData[k], ArgCols))
               => /\ status_msg.exc = ""
                  /\ status_msg.line.msg = "Incorrect number of cols: %s"

(***************************************************************************)
(* C7 as amended: _valid_dense_data stops at the first row, in order, that *)
(* does not pass the per-row checks and gives that row's outcome alone:    *)
(* the column-count defect when its length differs from C, TypeError when  *)
(* it has no element, the datatype defect otherwise; the row-count defect  *)
(* is given iff every row passes and the number of rows differs from R.    *)
(***************************************************************************)
C7_DenseFailFast ==
    pc[1] = "returned" =>
        IF Stopping = {}
        THEN status_msg = IF Len(ArgData) # ArgRows THEN Ret(RowsLine)
                          ELSE Ret(NoMsg)
        ELSE LET k == Least(Stopping)
             IN status_msg =
                    IF WrongLength(ArgData[k], ArgCols) THEN Ret(ColsLine(k - 1))
                    ELSE IF Len(ArgData[k]) = 0 THEN Raise("TypeError")
                    ELSE Ret(TypeLine(k - 1))

\* the number of rows differs from R, a row has a wrongly typed element,
\* and the datatype defect is what the rule gives
C7_BadRowHidesRowCount ==
    /\ pc[1] = "returned"
    /\ Len(ArgData) # ArgRows
    /\ \E k \in DOMAIN ArgData : status_msg = Ret(TypeLine(k - 1))

(***************************************************************************)
(* C8: on a pair (a, b), _valid_shape gives a defect iff a or b is not     *)
(* integer-typed or is negative.                                           *)
(***************************************************************************)
C8_ShapeNonNegativeIntegers ==
    LET shape == Mapping(table[1])["shape"] IN
    (pc[1] = "returned" /\ Len(shape) = 2) =>
        /\ status_msg.exc = ""
        /\ status_msg.line # NoMsg
               <=> \/ ~ (shape[1].ty \in {"int", "bool"})
                   \/ ~ (shape[2].ty \in {"int", "bool"})
                   \/ shape[1].n < 0
                   \/ shape[2].n < 0

(***************************************************************************)
(* C9: every step of a run only appends to the report and never turns a    *)
(* false verdict true; each iteration of the loop over the rule table      *)
(* moves on to the next key of the table, or past the table after its last *)
(* key, whatever was missing or failed before: it never ends the run; and  *)
(* the lines an iteration appends are about its own key.                   *)
(***************************************************************************)
C9_CollectAllInOrder ==
    [][\A r \in Threads :
          /\ IsPrefix(report_lines[r], report_lines'[r])
          /\ ~ valid_table[r] => ~ valid_table'[r]
          /\ (pc[r] = "fields" /\ (pc'[r] # pc[r] \/ idx'[r] # idx[r])) =>
                /\ pc'[r] # "raised"
                /\ pc'[r] = "fields" => idx'[r] = idx[r] + 1
                /\ pc'[r] # "fields" => idx[r] = Len(Required(table[r]))
                /\ \A n \in (Len(report_lines[r]) + 1)..Len(report_lines'[r]) :
                      LET l == report_lines'[r][n]
                          key == Required(table[r])[idx[r]]
                      IN \/ l = Line("Validating '%s'...", key, "", 0)
                         \/ l = MissingLine(table[r], key)
                         \/ /\ Has(table[r], key)
                            /\ l = Method(table[r], key,
                                          format_version_attr).line]_vars

(***************************************************************************)
(* C10: when runs share the TableValidator instance, every run that        *)
(* returns gives the report and verdict it gives when run alone.           *)
(***************************************************************************)
RECURSIVE RunFrom(_, _, _)
RunFrom(st, t, kw) ==
    IF st.pc \in {"done", "raised"} THEN st
    ELSE RunFrom(CASE st.pc = "fields" ->
                          FieldIteration(st, t, kw, kw.format_version)
                   [] st.pc = "groups" -> GroupsLoop(st, t, kw)
                   [] st.pc = "datasets" -> DatasetsLoop(st, t, kw)
                   [] st.pc = "cross" -> CrossCheck(st, t, kw),
                 t, kw)

\* the run of _validate_json / _validate_hdf5 on t with kw, uninterrupted
RunAlone(t, kw) == RunFrom(Enter(kw), t, kw)

C10_RunsIndependent ==
    \A r \in Threads :
        pc[r] = "done" =>
            /\ report_lines[r] = RunAlone(table[r], kwargs[r]).report_lines
            /\ valid_table[r] = RunAlone(table[r], kwargs[r]).valid_table

=============================================================================
